---- MODULE Spec2Model ----
(***************************************************************************)
(* The source-plugin pipeline of the amass engine: the FQDN handlers of    *)
(* SiteDossier, DuckDuckGo, crt.sh, Chaos and SecurityTrails, the RDAP     *)
(* autnum handler, and the support layer they share (TTL gate, database    *)
(* callback queue, store / mark-monitored mutations).                      *)
(*                                                                         *)
(* Strings are sequences of one-character strings, so that lowercasing,    *)
(* trimming, splitting and wildcard stripping are computed.                *)
(***************************************************************************)
EXTENDS Integers, Sequences, FiniteSets, TLC

\* ------------------------------------------------------------------ bounds
NumInst == 2        \* concurrent handler invocations
TTL == 1            \* the configured time-to-live, in ticks
MaxFetch == 2       \* external retrievals of one session
PerRequest == 2     \* ticks between two permissions of a limiter
LimHorizon == 8     \* the last tick a permission is issued for

Inst == 1..NumInst
MaxTime == TTL + 1  \* the clock runs until an edge written at 0 has expired
Nil == "nil"
NoEdge == 0 - 1
NoCreds == 0 - 1

\* ----------------------------------------------------------------- strings
ToLowerCh(c) ==
    CASE c = "A" -> "a"
      [] c = "B" -> "b"
      [] c = "E" -> "e"
      [] OTHER -> c

\* the element of a one-element set; {e : v \in {x}} is e with x computed once
The(S) == CHOOSE r \in S : TRUE

ToLower(s) == The({[i \in DOMAIN v |-> ToLowerCh(v[i])] : v \in {s}})

\* the text from the first character that is not a space
TrimLeftOf(v) ==
    LET keep == {i \in DOMAIN v : v[i] # " "}
    IN  IF keep = {} THEN <<>>
        ELSE SubSeq(v, CHOOSE i \in keep : \A j \in keep : i <= j, Len(v))

TrimLeft(s) == The({TrimLeftOf(v) : v \in {s}})

\* the text up to the last character that is not a space
TrimRightOf(v) ==
    LET keep == {i \in DOMAIN v : v[i] # " "}
    IN  IF keep = {} THEN <<>>
        ELSE SubSeq(v, 1, CHOOSE i \in keep : \A j \in keep : j <= i)

TrimRight(s) == The({TrimRightOf(v) : v \in {s}})

TrimSpace(s) == TrimRight(TrimLeft(s))

EqualFold(s, t) == ToLower(s) = ToLower(t)

\* strings.Split(s, sep) for a one-character separator: the pieces between
\* consecutive separators, the ends of the text included
SplitCut(s, sep, k) ==
    LET seps == {i \in DOMAIN s : s[i] = sep}
    IN  IF k = 0 THEN 0
        ELSE IF k > Cardinality(seps) THEN Len(s) + 1
        ELSE CHOOSE i \in seps : Cardinality({j \in seps : j < i}) = k - 1

Split(s, sep) ==
    The({[k \in 1..(Cardinality({i \in DOMAIN v : v[i] = sep}) + 1) |->
             SubSeq(v, SplitCut(v, sep, k - 1) + 1, SplitCut(v, sep, k) - 1)] :
         v \in {s}})

\* dns.RemoveAsteriskLabel: the text after the last "*." of the name
StarIdx(s) == {i \in 1..(Len(s) - 1) : s[i] = "*" /\ s[i + 1] = "."}

AfterStar(v) ==
    IF StarIdx(v) = {} THEN v
    ELSE LET k == CHOOSE i \in StarIdx(v) : \A j \in StarIdx(v) : j <= i
         IN  SubSeq(v, k + 2, Len(v))

RemoveAsteriskLabel(s) == The({AfterStar(v) : v \in {s}})

Dot == <<".">>

\* stringset.Set: Insert and Slice
SetInsert(set, s) == set \cup {s}

RECURSIVE SetSlice(_)
SetSlice(set) ==
    IF set = {} THEN <<>>
    ELSE LET x == CHOOSE y \in set : TRUE IN <<x>> \o SetSlice(set \ {x})

Range(q) == {q[i] : i \in DOMAIN q}

\* ----------------------------------------------------------------- plugins
FQDNPlugins == {"SiteDossier", "DuckDuckGo", "crt.sh", "Chaos", "SecurityTrails"}

\* the name of the Source descriptor each constructor registers
SourceName(pl) == IF pl = "crt.sh" THEN "HackerTarget" ELSE pl

\* plugins whose check reads the data source credentials first
Keyed(pl) == pl \in {"Chaos", "SecurityTrails"}

\* for i := 1; i < 20; i++
PageLimit == 20

\* ------------------------------------------------------------------ inputs
\* the asset an event carries
EventAssets ==
    { [type |-> "FQDN", name |-> <<"E">>],
      [type |-> "IPAddress", name |-> <<"E">>] }

\* what Scope().IsAssetInScope answers for the subject: (asset, confidence)
NoAsset == <<>>
ScopeAnswers ==
    { [a |-> NoAsset, conf |-> 0],
      [a |-> NoAsset, conf |-> 50],
      [a |-> <<"e">>, conf |-> 50],
      [a |-> <<"x">>, conf |-> 50] }

\* the scope filter has not been asked
NoAnswer == [a |-> NoAsset, conf |-> 0 - 1]

\* the scope filter on a candidate name: confidence > 0 for names under "e"
InScope(s) ==
    \E n \in {ToLower(TrimSpace(s))} :
        /\ Len(n) >= 3
        /\ SubSeq(n, Len(n) - 1, Len(n)) = <<".", "e">>
        /\ \A i \in 1..(Len(n) - 2) : n[i] \notin {" ", "*", "."}

\* GetDataSourceConfig: no entry, or an entry with this many usable API keys
\* (NoCreds: ds == nil or no credentials at all)
DataSourceConfigs == {NoCreds, 0, 1, 2}

\* the names a scraped page yields (ScrapeSubdomainNames), raw
PageNames ==
    { << <<"a", ".", "e">>, <<"A", ".", "e">>, <<" ", "a", ".", "e", " ">> >>,
      << <<"b", ".", "e">>, <<"x", ".", "o">> >> }

\* the name_value fields of a crt.sh answer, raw, names separated by "\n"
CertNames ==
    { << <<"a", ".", "e", "\n", "A", ".", "e">>, <<"*", ".", "a", ".", "e">> >>,
      << <<"b", ".", "e", "\n", "x", ".", "o">> >> }

\* the subdomains field of a Chaos or SecurityTrails answer: labels
SubLabels ==
    { << <<"a">>, <<"A">>, <<"a">> >>,
      << <<"b">>, <<"*", ".", "b">>, <<"x", ".", "o", " ">> >> }

\* the event of the autnum handler: the asset with its WhoisServer field
AutnumAssets ==
    { [type |-> "AutnumRecord", whois |-> <<>>],
      [type |-> "AutnumRecord", whois |-> <<"w", ".", "e">>],
      [type |-> "AutnumRecord", whois |-> <<"w", ".", "o">>],
      [type |-> "FQDN", whois |-> <<>>] }

\* e.Meta: no RDAP record, or a record with or without a JSON link and with
\* no entities
NoMeta == [present |-> FALSE, link |-> FALSE]
MetaRecords == {NoMeta, [present |-> TRUE, link |-> FALSE],
                [present |-> TRUE, link |-> TRUE]}

\* what CheckTransformations answers: an error, or the matches
MatchResults ==
    {[err |-> TRUE, m |-> {}]}
    \cup {[err |-> FALSE, m |-> m] :
             m \in {{}, {"FQDN"}, {"URL", "FQDN", "ContactRecord"}}}

\* the transformations of an AutnumRecord the configuration has no TTL for
PolicyGaps == {{}, {"FQDN"}, {"URL", "FQDN", "ContactRecord"}}

\* a web response: a transport error, an empty body, a body that does not
\* parse, or a body with its parsed content
WebResponses(pl) ==
    {[err |-> TRUE, body |-> "", data |-> <<>>],
     [err |-> FALSE, body |-> "", data |-> <<>>]}
    \cup (IF pl \in {"crt.sh", "Chaos", "SecurityTrails"}
          THEN {[err |-> FALSE, body |-> "bad", data |-> <<>>]} ELSE {})
    \cup {[err |-> FALSE, body |-> "ok", data |-> d] :
            d \in (CASE pl \in {"SiteDossier", "DuckDuckGo"} -> PageNames
                     [] pl = "crt.sh" -> CertNames
                     [] OTHER -> SubLabels)}

\* ------------------------------------------------------------------- state
VARIABLES
    now,        \* the clock
    sessDone,   \* Session.Done()
    cfg,        \* the configuration, as far as it has been read: TTL policies by
                \* key, the credentials of the data source, the transformations
    vals,       \* graph: values linked to a subject via a source, with time
    mon,        \* graph: subject -> source "monitored" edges, with time
    queue,      \* the database callback queue (owners of the closures)
    worker,     \* the instance whose closure the queue is executing, or 0
    fetched,    \* external retrievals the source has answered in this session
    rlimit,     \* the plugin's rate limiter
    registered, \* the plugin the session has started
    inst        \* the handler invocations

vars == <<now, sessDone, cfg, vals, mon, queue, worker, fetched, rlimit, registered, inst>>

\* the transformations of the autnum handler, in the order of r.transforms
RDAP == "RDAP"
Transforms == <<"URL", "FQDN", "ContactRecord">>

CfgKeys == FQDNPlugins \cup Range(Transforms)

Unset == "unset"
UnsetCreds == 0 - 2
UnsetMatches == [err |-> FALSE, m |-> {Unset}]
InitCfg == [ttl |-> [k \in CfgKeys |-> Unset], creds |-> UnsetCreds,
            matches |-> UnsetMatches]

\* ratelimit.New(rate, ratelimit.WithoutSlack): no permission issued yet
InitLimiter == [next |-> NoEdge, log |-> <<>>]

InitInst ==
    [ pc |-> "idle", plugin |-> Nil, subj |-> <<>>,
      ans |-> NoAnswer, resolved |-> FALSE, err |-> FALSE,
      since |-> 0, fresh |-> FALSE, branch |-> "none", decEdge |-> NoEdge,
      keys |-> 0, i |-> 0, subs |-> {}, names |-> <<>>, handed |-> FALSE,
      acq |-> 0, retr |-> 0, nfail |-> 0, asked |-> {}, pages |-> <<>>, slot |-> NoEdge,
      nsub |-> 0, marked |-> FALSE,
      assets |-> <<>>, findings |-> {},
      cl |-> "none", kind |-> "none", chan |-> 0, closed |-> FALSE,
      sends |-> 0, runs |-> 0, failed |-> FALSE, touched |-> FALSE,
      m |-> {}, sinces |-> {}, rtypes |-> <<>>, meta |-> NoMeta, whois |-> <<>> ]

Init ==
    /\ now = 0
    /\ sessDone = FALSE
    /\ cfg = InitCfg
    /\ vals = {}
    /\ mon = {}
    /\ queue = <<>>
    /\ worker = 0
    /\ fetched = 0
    /\ rlimit = InitLimiter
    /\ registered \in FQDNPlugins
    /\ inst = [p \in Inst |-> InitInst]

\* a session that has started one plugin, the RDAP plugin included
InitConc ==
    /\ now = 0
    /\ sessDone = FALSE
    /\ cfg = InitCfg
    /\ vals = {}
    /\ mon = {}
    /\ queue = <<>>
    /\ worker = 0
    /\ fetched = 0
    /\ rlimit = InitLimiter
    /\ registered \in FQDNPlugins \cup {RDAP}
    /\ inst = [p \in Inst |-> InitInst]

Set(p, r) == inst' = [inst EXCEPT ![p] = r]

\* ----------------------------------------------------------- support layer
\* support.TTLStartTime: now minus the configured time-to-live
TTLStartTime(t) == t - TTL

\* variant: only an edge strictly younger than since counts
AssetMonitoredAfter(m, subj, src, since) ==
    \E e \in m : e.subj = subj /\ e.src = src /\ e.ts > since

\* support.AssetMonitoredWithinTTL: a subject -> source edge not older than since
AssetMonitoredWithinTTL(m, subj, src, since) ==
    \E e \in m : e.subj = subj /\ e.src = src /\ e.ts >= since

\* the time of the subject -> source edge, or NoEdge
EdgeTime(m, subj, src) ==
    IF \E e \in m : e.subj = subj /\ e.src = src
    THEN (CHOOSE e \in m : e.subj = subj /\ e.src = src).ts
    ELSE NoEdge

\* support.SourceToAssetsWithinTTL: the values stored for the subject by the
\* source and seen since the threshold
SourceToAssetsWithinTTL(g, subj, src, since) ==
    SetSlice({v.name : v \in {w \in g : w.subj = subj /\ w.src = src /\ w.ts >= since}})

\* the mutation of support.StoreFQDNsWithSource: create or refresh each name
StoreNames(g, subj, src, names, t) ==
    {v \in g : ~(v.subj = subj /\ v.src = src /\ v.name \in Range(names))}
    \cup {[subj |-> subj, src |-> src, name |-> n, ts |-> t, rel |-> "discovered"] :
             n \in Range(names)}

\* the mutation of support.MarkAssetMonitored: refresh the edge to now
MarkEdge(m, subj, src, t) ==
    {e \in m : ~(e.subj = subj /\ e.src = src)}
    \cup {[subj |-> subj, src |-> src, ts |-> t]}

\* -------------------------------------------------------------- candidates
\* strings.ToLower(strings.TrimSpace(n))
Normalize(n) == ToLower(TrimSpace(n))

\* the string each query passes to the scope filter for one raw name
ScrapeNstr(n) == Normalize(n)
CrtshNstr(n) == Normalize(RemoveAsteriskLabel(n))
SecurityTrailsNstr(sub, name) == Normalize(RemoveAsteriskLabel(sub \o Dot \o name))
ChaosN(sub, name) == RemoveAsteriskLabel(sub \o Dot \o name)

\* the strings the scope filter is asked about while one answer is handled
ScrapeAsked(raw) == {ScrapeNstr(raw[k]) : k \in DOMAIN raw}
CrtshAsked(certs) ==
    UNION {{CrtshNstr(n) : n \in Range(Split(certs[k], "\n"))} : k \in DOMAIN certs}
SecurityTrailsAsked(subs, name) == {SecurityTrailsNstr(subs[k], name) : k \in DOMAIN subs}
ChaosAsked(subs, name) == {ChaosN(subs[k], name) : k \in DOMAIN subs}

\* siteDossier.query / duckDuckGo.query: normalize, scope check, insert
RECURSIVE ScrapeInto(_, _)
ScrapeInto(set, raw) ==
    IF raw = <<>> THEN set
    ELSE LET nstr == ScrapeNstr(Head(raw))
         IN  ScrapeInto(IF InScope(nstr) THEN SetInsert(set, nstr) ELSE set, Tail(raw))

\* crtsh.query: strip the wildcard label, normalize, scope check, append
RECURSIVE CrtshLine(_, _)
CrtshLine(names, raw) ==
    IF raw = <<>> THEN names
    ELSE LET nstr == CrtshNstr(Head(raw))
         IN  CrtshLine(IF InScope(nstr) THEN Append(names, nstr) ELSE names, Tail(raw))

RECURSIVE CrtshNames(_, _)
CrtshNames(names, certs) ==
    IF certs = <<>> THEN names
    ELSE CrtshNames(CrtshLine(names, Split(Head(certs), "\n")), Tail(certs))

\* securityTrails.query: sub + "." + name, strip, normalize, scope check, append
RECURSIVE SecurityTrailsNames(_, _, _)
SecurityTrailsNames(names, subs, name) ==
    IF subs = <<>> THEN names
    ELSE LET nstr == SecurityTrailsNstr(Head(subs), name)
         IN  SecurityTrailsNames(IF InScope(nstr) THEN Append(names, nstr) ELSE names,
                                 Tail(subs), name)

\* chaos.query: sub + "." + name, strip, scope check, then normalize and append
RECURSIVE ChaosNames(_, _, _)
ChaosNames(names, subs, name) ==
    IF subs = <<>> THEN names
    ELSE LET n == ChaosN(Head(subs), name)
         IN  ChaosNames(IF InScope(n) THEN Append(names, Normalize(n)) ELSE names,
                        Tail(subs), name)

\* ------------------------------------------------------- the FQDN handlers
\* variant: the name of the asset the filter returns is not compared
OutOfScopeAnyName(name, ans) ==
    ans.conf = 0 \/ ans.a = NoAsset

\* check: the subject is dropped when the filter gives no confidence, no
\* asset, or an asset with another name
OutOfScope(name, ans) ==
    ans.conf = 0 \/ ans.a = NoAsset \/ ~EqualFold(name, ans.a)

\* variant: a missing policy is taken as "never fresh" and the query runs
MissingTTLQueries(r) ==
    [r EXCEPT !.branch = "query", !.i = 1,
              !.pc = IF Keyed(r.plugin) /\ r.keys = 0 THEN "store" ELSE "take"]

\* check: TTLStartTime finds no policy and the error is returned
MissingTTL(r) == [r EXCEPT !.pc = "done", !.err = TRUE, !.keys = 0]

\* variant: the query runs whatever the gate says
DecideQuery(r, fresh) ==
    [r EXCEPT !.fresh = fresh, !.branch = "query", !.i = 1,
              !.pc = IF Keyed(r.plugin) /\ r.keys = 0 THEN "store" ELSE "take"]

\* check: lookup when the pair is monitored within the TTL, query otherwise
\* (Chaos and SecurityTrails with an empty key list go straight to store)
Decide(r, fresh) ==
    IF fresh
    THEN [r EXCEPT !.fresh = TRUE, !.pc = "lookup", !.branch = "lookup"]
    ELSE [r EXCEPT !.branch = "query", !.i = 1,
                   !.pc = IF Keyed(r.plugin) /\ r.keys = 0 THEN "store" ELSE "take"]

\* check, up to the TTL decision: the type assertion, the credentials (Chaos,
\* SecurityTrails), the scope check, GetSource, TTLStartTime and the gate
CheckStart(p) ==
    /\ inst[p].pc = "idle"
    /\ registered \in FQDNPlugins
    /\ \A q \in Inst : q < p => inst[q].pc # "idle"
    /\ \E asset \in EventAssets :
        LET pl == registered
            r0 == [inst[p] EXCEPT !.plugin = pl, !.subj = asset.name]
            src == SourceName(pl)
            since == TTLStartTime(now)
        IN  IF asset.type # "FQDN"
            THEN Set(p, [r0 EXCEPT !.pc = "done", !.err = TRUE]) /\ UNCHANGED cfg
            ELSE \E ds \in (IF Keyed(pl) THEN DataSourceConfigs ELSE {0}) :
            IF Keyed(pl) /\ cfg.creds \notin {UnsetCreds, ds}
            THEN FALSE
            ELSE IF Keyed(pl) /\ ds = NoCreds
            THEN Set(p, [r0 EXCEPT !.pc = "done"])
                 /\ cfg' = [cfg EXCEPT !.creds = ds]
            ELSE \E ans \in ScopeAnswers :
            IF OutOfScope(asset.name, ans)
            THEN Set(p, [r0 EXCEPT !.pc = "done", !.ans = ans])
                 /\ cfg' = [cfg EXCEPT !.creds = IF Keyed(pl) THEN ds ELSE @]
            ELSE \E srcOK \in BOOLEAN :
            IF ~srcOK
            THEN Set(p, [r0 EXCEPT !.pc = "done", !.ans = ans, !.err = TRUE])
                 /\ cfg' = [cfg EXCEPT !.creds = IF Keyed(pl) THEN ds ELSE @]
            ELSE \E pol \in {"none", "set"} :
                 /\ cfg.ttl[pl] \in {Unset, pol}
                 /\ cfg' = [cfg EXCEPT !.ttl[pl] = pol,
                                       !.creds = IF Keyed(pl) THEN ds ELSE @]
                 /\ LET r1 == [r0 EXCEPT !.ans = ans, !.resolved = TRUE, !.keys = ds]
                    IN  IF pol = "none"
                        THEN Set(p, MissingTTL(r1))
                        ELSE Set(p, Decide(
                                [r1 EXCEPT !.since = since,
                                           !.decEdge = EdgeTime(mon, asset.name, src)],
                                AssetMonitoredWithinTTL(mon, asset.name, src, since)))
    /\ UNCHANGED <<now, sessDone, vals, mon, queue, worker, fetched, rlimit, registered>>

\* the engine runs the handler for one event at a time
Invoke(p) ==
    /\ \A q \in Inst : inst[q].pc \in {"idle", "done"}
    /\ CheckStart(p)

\* process: one finding per asset, when there is any
Process(r) == [r EXCEPT !.pc = "done", !.findings = Range(r.assets),
                        !.assets = <<>>, !.subs = {}, !.names = <<>>,
                        !.asked = {}, !.i = 0, !.keys = 0]

\* variant: the reuse branch returns nothing
LookupNothing(p) ==
    /\ inst[p].pc = "lookup"
    /\ Set(p, Process([inst[p] EXCEPT !.assets = <<>>]))
    /\ UNCHANGED <<now, sessDone, cfg, vals, mon, queue, worker, fetched, rlimit, registered>>

\* lookup: the reuse branch
Lookup(p) ==
    /\ inst[p].pc = "lookup"
    /\ LET r == inst[p]
       IN  Set(p, Process([r EXCEPT !.assets =
               SourceToAssetsWithinTTL(vals, r.subj, SourceName(r.plugin), r.since)]))
    /\ UNCHANGED <<now, sessDone, cfg, vals, mon, queue, worker, fetched, rlimit, registered>>

\* variant: the request goes out without a permission of the limiter
TakeUncounted(p) ==
    /\ inst[p].pc = "take"
    /\ fetched < MaxFetch
    /\ fetched' = fetched + 1
    /\ Set(p, [inst[p] EXCEPT !.pc = "request"])
    /\ UNCHANGED <<now, sessDone, cfg, vals, mon, queue, worker, rlimit, registered>>

\* rlimit.Take(), for a request the source is going to answer
Take(p) ==
    /\ inst[p].pc = "take"
    /\ fetched < MaxFetch
    /\ fetched' = fetched + 1
    /\ Set(p, [inst[p] EXCEPT !.pc = "request", !.acq = @ + 1])
    /\ UNCHANGED <<now, sessDone, cfg, vals, mon, queue, worker, rlimit, registered>>

\* the rest of one pass of query after Take, by plugin
\* variant: a page that fails or comes back empty is requested again
SiteDossierRetry(r, resp) ==
    IF resp.err \/ resp.body = ""
    THEN [r EXCEPT !.pc = "take", !.nfail = @ + 1, !.pages = Append(@, r.i)]
    ELSE LET s2 == ScrapeInto(r.subs, resp.data)
         IN  IF r.i + 1 < PageLimit
             THEN [r EXCEPT !.subs = s2, !.i = @ + 1, !.pc = "take",
                            !.pages = Append(@, r.i),
                            !.asked = @ \cup ScrapeAsked(resp.data)]
             ELSE [r EXCEPT !.subs = s2, !.i = @ + 1, !.pc = "store",
                            !.names = SetSlice(s2), !.pages = Append(@, r.i),
                            !.asked = @ \cup ScrapeAsked(resp.data)]

\* one pass of the page loop: page i has been requested
SiteDossierStep(r, resp) ==
    IF resp.err \/ resp.body = ""
    THEN [r EXCEPT !.pc = "store", !.names = SetSlice(r.subs), !.nfail = @ + 1,
                   !.pages = Append(@, r.i)]
    ELSE LET s2 == ScrapeInto(r.subs, resp.data)
         IN  IF r.i + 1 < PageLimit
             THEN [r EXCEPT !.subs = s2, !.i = @ + 1, !.pc = "take",
                            !.pages = Append(@, r.i),
                            !.asked = @ \cup ScrapeAsked(resp.data)]
             ELSE [r EXCEPT !.subs = s2, !.i = @ + 1, !.pc = "store",
                            !.names = SetSlice(s2), !.pages = Append(@, r.i),
                            !.asked = @ \cup ScrapeAsked(resp.data)]

\* variant: a failed retrieval ends the invocation with an error
DuckDuckGoAbort(r, resp) ==
    IF resp.err \/ resp.body = ""
    THEN [r EXCEPT !.pc = "done", !.err = TRUE, !.nfail = @ + 1]
    ELSE LET s2 == ScrapeInto(r.subs, resp.data)
         IN  [r EXCEPT !.subs = s2, !.pc = "store", !.names = SetSlice(s2),
                       !.asked = @ \cup ScrapeAsked(resp.data)]

DuckDuckGoStep(r, resp) ==
    IF resp.err \/ resp.body = ""
    THEN [r EXCEPT !.pc = "mark", !.assets = <<>>, !.nfail = @ + 1]
    ELSE LET s2 == ScrapeInto(r.subs, resp.data)
         IN  [r EXCEPT !.subs = s2, !.pc = "store", !.names = SetSlice(s2),
                       !.asked = @ \cup ScrapeAsked(resp.data)]

\* variant: after a failed retrieval check returns without marking the pair
CrtshSkipMark(r, resp) ==
    IF resp.err \/ resp.body # "ok"
    THEN Process([r EXCEPT !.assets = <<>>, !.nfail = @ + 1])
    ELSE [r EXCEPT !.pc = "store", !.names = CrtshNames(<<>>, resp.data),
                   !.asked = @ \cup CrtshAsked(resp.data)]

CrtshStep(r, resp) ==
    IF resp.err \/ resp.body # "ok"
    THEN [r EXCEPT !.pc = "mark", !.assets = <<>>, !.nfail = @ + 1]
    ELSE [r EXCEPT !.pc = "store", !.names = CrtshNames(<<>>, resp.data),
                   !.asked = @ \cup CrtshAsked(resp.data)]

\* the next credential, or store after the last one
NextKey(r) == IF r.i < r.keys THEN [r EXCEPT !.i = @ + 1, !.pc = "take"]
              ELSE [r EXCEPT !.pc = "store"]

ChaosStep(r, resp) ==
    IF resp.err \/ resp.body # "ok"
    THEN NextKey([r EXCEPT !.nfail = @ + 1])
    ELSE NextKey([r EXCEPT !.names = ChaosNames(r.names, resp.data, r.subj),
                           !.asked = @ \cup ChaosAsked(resp.data, r.subj)])

SecurityTrailsStep(r, resp) ==
    IF resp.err \/ resp.body # "ok"
    THEN NextKey([r EXCEPT !.nfail = @ + 1])
    ELSE [r EXCEPT !.names = SecurityTrailsNames(r.names, resp.data, r.subj),
                   !.asked = @ \cup SecurityTrailsAsked(resp.data, r.subj),
                   !.pc = "store"]

QueryStep(r, resp) ==
    CASE r.plugin = "SiteDossier" -> SiteDossierStep(r, resp)
      [] r.plugin = "DuckDuckGo" -> DuckDuckGoStep(r, resp)
      [] r.plugin = "crt.sh" -> CrtshStep(r, resp)
      [] r.plugin = "Chaos" -> ChaosStep(r, resp)
      [] r.plugin = "SecurityTrails" -> SecurityTrailsStep(r, resp)

\* http.RequestWebPage and what query does with the answer
Request(p) ==
    /\ inst[p].pc = "request"
    /\ \E resp \in WebResponses(inst[p].plugin) :
           Set(p, QueryStep([inst[p] EXCEPT !.retr = @ + 1], resp))
    /\ UNCHANGED <<now, sessDone, cfg, vals, mon, queue, worker, fetched, rlimit, registered>>

\* rlimit.Take() and http.RequestWebPage once the source has stopped
\* answering: the limiter returns and the request fails
TakeRefused(p) ==
    /\ inst[p].pc = "take"
    /\ fetched >= MaxFetch
    /\ Set(p, QueryStep([inst[p] EXCEPT !.acq = @ + 1, !.retr = @ + 1],
                        [err |-> TRUE, body |-> "", data |-> <<>>]))
    /\ UNCHANGED <<now, sessDone, cfg, vals, mon, queue, worker, fetched, rlimit, registered>>

\* ------------------------------------------------ the RDAP autnum handler
\* the relation types lookup asks for, by transformation
RelTypes(atype) ==
    CASE atype = "URL" -> <<"rdap_url">>
      [] atype = "FQDN" -> <<"whois_server">>
      [] atype = "ContactRecord" ->
            <<"registrant", "admin_contact", "abuse_contact", "technical_contact">>

\* the asset type a relation leads to
ToType(rel) ==
    CASE rel = "rdap_url" -> "URL"
      [] rel = "whois_server" -> "FQDN"
      [] OTHER -> "ContactRecord"

\* lookup, lines 210-229: the transformations that match and have a TTL policy
RECURSIVE LookupTypes(_, _, _)
LookupTypes(ts, m, pol) ==
    IF ts = <<>> THEN [sinces |-> {}, rtypes |-> <<>>]
    ELSE LET rest == LookupTypes(Tail(ts), m, pol)
             atype == Head(ts)
         IN  IF atype \notin m \/ pol[atype] = "none"
             THEN rest
             ELSE [sinces |-> {atype} \cup rest.sinces,
                   rtypes |-> RelTypes(atype) \o rest.rtypes]

\* check: the type assertion, GetSource, CheckTransformations, and the choice
\* of store or lookup
AutnumCheck(p) ==
    /\ inst[p].pc = "idle"
    /\ registered = RDAP
    /\ \A q \in Inst : q < p => inst[q].pc # "idle"
    /\ \E asset \in AutnumAssets :
        LET r0 == [inst[p] EXCEPT !.plugin = RDAP, !.subj = <<"AS">>]
        IN  IF asset.type # "AutnumRecord"
            THEN Set(p, [r0 EXCEPT !.pc = "done", !.err = TRUE]) /\ UNCHANGED cfg
            ELSE \E srcOK \in BOOLEAN :
            IF ~srcOK
            THEN Set(p, [r0 EXCEPT !.pc = "done", !.err = TRUE]) /\ UNCHANGED cfg
            ELSE \E res \in MatchResults :
            IF cfg.matches \notin {UnsetMatches, res}
            THEN FALSE
            ELSE IF res.err \/ res.m = {}
            THEN Set(p, [r0 EXCEPT !.pc = "done"]) /\ cfg' = [cfg EXCEPT !.matches = res]
            ELSE \E meta \in MetaRecords :
            LET r1 == [r0 EXCEPT !.m = res.m]
            IN  IF meta.present
                THEN Set(p, [r1 EXCEPT !.pc = "autstore", !.meta = meta,
                                       !.whois = asset.whois])
                     /\ cfg' = [cfg EXCEPT !.matches = res]
                ELSE \E gaps \in PolicyGaps :
                     LET pol == [k \in Range(Transforms) |->
                                   IF k \in gaps THEN "none" ELSE "set"]
                     IN
                     /\ \A k \in res.m : cfg.ttl[k] \in {Unset, pol[k]}
                     /\ cfg' = [cfg EXCEPT !.matches = res,
                                  !.ttl = [k \in CfgKeys |->
                                             IF k \in res.m THEN pol[k] ELSE @[k]]]
                     /\ LET lt == LookupTypes(Transforms, res.m, pol)
                        IN  Set(p, [r1 EXCEPT !.pc = "autlookup",
                                        !.since = TTLStartTime(now),
                                        !.sinces = lt.sinces, !.rtypes = lt.rtypes])
    /\ UNCHANGED <<now, sessDone, vals, mon, queue, worker, fetched, rlimit, registered>>

\* process, and what is left of the invocation afterwards
AutnumProcess(r) ==
    [Process(r) EXCEPT !.m = {}, !.sinces = {}, !.rtypes = <<>>,
                       !.meta = NoMeta, !.whois = <<>>, !.since = 0]

\* ------------------------------------------------------ the callback queue
\* done := make(chan struct{}, 1); support.AppendToDBQueue(func() {...})
Submit(p, r, kind, wait) ==
    /\ Set(p, [r EXCEPT !.pc = wait, !.nsub = @ + 1, !.cl = "queued", !.kind = kind,
                        !.chan = 0, !.closed = FALSE, !.sends = 0, !.runs = 0])
    /\ queue' = Append(queue, p)
    /\ UNCHANGED worker

\* <-done; close(done)
Received(r) == [r EXCEPT !.chan = @ - 1, !.closed = TRUE]

\* variant: the names are not stored before the pair is marked
StoreSkipped(p) ==
    /\ inst[p].pc = "store"
    /\ Set(p, [inst[p] EXCEPT !.pc = "mark", !.handed = TRUE])
    /\ UNCHANGED <<now, sessDone, cfg, vals, mon, queue, worker, fetched, rlimit, registered>>

\* store: support.StoreFQDNsWithSource submits its mutation
StoreSubmit(p) ==
    /\ inst[p].pc = "store"
    /\ Submit(p, [inst[p] EXCEPT !.handed = TRUE], "store", "storewait")
    /\ UNCHANGED <<now, sessDone, cfg, vals, mon, fetched, rlimit, registered>>

StoreWait(p) ==
    /\ inst[p].pc = "storewait"
    /\ inst[p].chan > 0
    /\ Set(p, [Received(inst[p]) EXCEPT !.pc = "mark"])
    /\ UNCHANGED <<now, sessDone, cfg, vals, mon, queue, worker, fetched, rlimit, registered>>

\* support.MarkAssetMonitored submits its mutation
MarkSubmit(p) ==
    /\ inst[p].pc = "mark"
    /\ Submit(p, inst[p], "mark", "markwait")
    /\ UNCHANGED <<now, sessDone, cfg, vals, mon, fetched, rlimit, registered>>

MarkWait(p) ==
    /\ inst[p].pc = "markwait"
    /\ inst[p].chan > 0
    /\ Set(p, Process(Received(inst[p])))
    /\ UNCHANGED <<now, sessDone, cfg, vals, mon, queue, worker, fetched, rlimit, registered>>

\* variant: lookup runs its closure itself instead of queueing it
AutnumLookupDirect(p) ==
    /\ inst[p].pc = "autlookup"
    /\ Set(p, [inst[p] EXCEPT !.pc = "autlookupwait", !.nsub = @ + 1,
                              !.cl = "running", !.kind = "autlookup", !.chan = 0,
                              !.closed = FALSE, !.sends = 0, !.runs = 1])
    /\ UNCHANGED <<now, sessDone, cfg, vals, mon, queue, worker, fetched, rlimit, registered>>

\* lookup submits its closure and waits for it
AutnumLookupSubmit(p) ==
    /\ inst[p].pc = "autlookup"
    /\ Submit(p, inst[p], "autlookup", "autlookupwait")
    /\ UNCHANGED <<now, sessDone, cfg, vals, mon, fetched, rlimit, registered>>

AutnumLookupWait(p) ==
    /\ inst[p].pc = "autlookupwait"
    /\ inst[p].chan > 0
    /\ Set(p, AutnumProcess(Received(inst[p])))
    /\ UNCHANGED <<now, sessDone, cfg, vals, mon, queue, worker, fetched, rlimit, registered>>

\* store submits its closure and waits for it; resp.Entities is empty, so the
\* loop over the entities that follows does nothing
AutnumStoreSubmit(p) ==
    /\ inst[p].pc = "autstore"
    /\ Submit(p, inst[p], "autstore", "autstorewait")
    /\ UNCHANGED <<now, sessDone, cfg, vals, mon, fetched, rlimit, registered>>

\* variant: store does not wait on done before it closes it and returns
AutnumStoreNoWait(p) ==
    /\ inst[p].pc = "autstorewait"
    /\ Set(p, AutnumProcess(Received(inst[p])))
    /\ UNCHANGED <<now, sessDone, cfg, vals, mon, queue, worker, fetched, rlimit, registered>>

AutnumStoreWait(p) ==
    /\ inst[p].pc = "autstorewait"
    /\ inst[p].chan > 0
    /\ Set(p, AutnumProcess(Received(inst[p])))
    /\ UNCHANGED <<now, sessDone, cfg, vals, mon, queue, worker, fetched, rlimit, registered>>

\* the queue's goroutine takes the next callback
QueueStart ==
    /\ worker = 0
    /\ queue # <<>>
    /\ worker' = Head(queue)
    /\ queue' = Tail(queue)
    /\ Set(Head(queue), [inst[Head(queue)] EXCEPT !.cl = "running", !.runs = @ + 1])
    /\ UNCHANGED <<now, sessDone, cfg, vals, mon, fetched, rlimit, registered>>

\* variant: the signal is sent at the end of the closure, which a failed
\* graph call does not reach
SignalAtEnd(r) ==
    IF r.failed THEN [r EXCEPT !.cl = "finished"]
    ELSE [r EXCEPT !.cl = "finished", !.chan = @ + 1, !.sends = @ + 1]

\* defer func() { done <- struct{}{} }()
Signal(r) == [r EXCEPT !.cl = "finished", !.chan = @ + 1, !.sends = @ + 1]

\* the mutation of StoreFQDNsWithSource
StoreBody(p) ==
    LET r == inst[p]
    IN  IF sessDone
        THEN Set(p, Signal([r EXCEPT !.assets = <<>>])) /\ UNCHANGED <<vals, mon>>
        ELSE /\ vals' = StoreNames(vals, r.subj, SourceName(r.plugin), r.names, now)
             /\ Set(p, Signal([r EXCEPT !.assets = r.names]))
             /\ UNCHANGED mon

\* the mutation of MarkAssetMonitored
MarkBody(p) ==
    LET r == inst[p]
    IN  IF sessDone
        THEN Set(p, Signal(r)) /\ UNCHANGED <<vals, mon>>
        ELSE /\ mon' = MarkEdge(mon, r.subj, SourceName(r.plugin), now)
             /\ Set(p, Signal([r EXCEPT !.marked = TRUE]))
             /\ UNCHANGED vals

\* DB().Create(asset, rel, value): the value under the subject, seen now; the
\* source link that follows it is taken to succeed
Create(g, subj, rel, name, src, t) ==
    {v \in g : ~(v.subj = subj /\ v.rel = rel /\ v.name = name)}
    \cup {[subj |-> subj, src |-> src, name |-> name, ts |-> t, rel |-> rel]}

\* autnum.oneOfSources: a source edge to src since the threshold
OneOfSources(v, src, since) == v.src = src /\ v.ts >= since

\* variant: the signal is not deferred, and a failing OutgoingRelations
\* leaves the closure before it is sent
AutnumLookupNoDefer(p) ==
    LET r == inst[p]
        rels == {v \in vals : v.subj = r.subj
                              /\ (r.rtypes = <<>> \/ v.rel \in Range(r.rtypes))}
    IN  /\ UNCHANGED <<vals, mon>>
        /\ IF sessDone
           THEN Set(p, Signal(r))
           ELSE \E ok \in BOOLEAN :
                  IF ok
                  THEN Set(p, Signal([r EXCEPT !.assets = SetSlice(
                           {[name |-> v.name, rel |-> v.rel] :
                               v \in {w \in rels : /\ ToType(w.rel) \in r.sinces
                                                   /\ ~(w.ts < r.since)
                                                   /\ OneOfSources(w, RDAP, r.since)}})]))
                  ELSE Set(p, [r EXCEPT !.cl = "finished", !.failed = TRUE])

\* the closure of autnum.lookup
AutnumLookupBody(p) ==
    LET r == inst[p]
        rels == {v \in vals : v.subj = r.subj
                              /\ (r.rtypes = <<>> \/ v.rel \in Range(r.rtypes))}
    IN  /\ UNCHANGED <<vals, mon>>
        /\ IF sessDone
           THEN Set(p, Signal(r))
           ELSE \E ok \in BOOLEAN, bad \in SUBSET rels :
                  LET hits == {v \in rels \ bad :
                                 /\ ok
                                 /\ ToType(v.rel) \in r.sinces
                                 /\ ~(v.ts < r.since)
                                 /\ OneOfSources(v, RDAP, r.since)}
                  IN  Set(p, Signal([r EXCEPT
                          !.failed = ~ok \/ bad # {},
                          !.touched = TRUE,
                          !.assets =
                          SetSlice({[name |-> v.name, rel |-> v.rel] : v \in hits})]))

\* variant: the closure of store does not look at Session.Done()
AutnumStoreAnyway(p) ==
    LET r == inst[p]
        doURL == r.meta.link /\ "URL" \in r.m
        doWhois == r.whois # <<>> /\ "FQDN" \in r.m
    IN  /\ UNCHANGED mon
        /\ \E ok1 \in (IF doURL THEN BOOLEAN ELSE {FALSE}),
                   ok2 \in (IF doWhois THEN BOOLEAN ELSE {FALSE}) :
                  LET g1 == IF ok1 THEN Create(vals, r.subj, "rdap_url", <<"u">>, RDAP, now)
                            ELSE vals
                      f1 == IF ok1 THEN <<[name |-> <<"u">>, rel |-> "rdap_url"]>>
                            ELSE <<>>
                      g2 == IF ok2
                            THEN Create(g1, r.subj, "whois_server", r.whois, RDAP, now)
                            ELSE g1
                      f2 == IF ok2 /\ InScope(r.whois)
                            THEN Append(f1, [name |-> r.whois, rel |-> "whois_server"])
                            ELSE f1
                  IN  /\ vals' = g2
                      /\ Set(p, Signal([r EXCEPT
                              !.failed = (doURL /\ ~ok1) \/ (doWhois /\ ~ok2),
                              !.touched = doURL \/ doWhois,
                              !.assets = f2]))

\* the closure of autnum.store
AutnumStoreBody(p) ==
    LET r == inst[p]
        doURL == r.meta.link /\ "URL" \in r.m
        doWhois == r.whois # <<>> /\ "FQDN" \in r.m
    IN  /\ UNCHANGED mon
        /\ IF sessDone
           THEN Set(p, Signal(r)) /\ UNCHANGED vals
           ELSE \E ok1 \in (IF doURL THEN BOOLEAN ELSE {FALSE}),
                   ok2 \in (IF doWhois THEN BOOLEAN ELSE {FALSE}) :
                  LET g1 == IF ok1 THEN Create(vals, r.subj, "rdap_url", <<"u">>, RDAP, now)
                            ELSE vals
                      f1 == IF ok1 THEN <<[name |-> <<"u">>, rel |-> "rdap_url"]>>
                            ELSE <<>>
                      g2 == IF ok2
                            THEN Create(g1, r.subj, "whois_server", r.whois, RDAP, now)
                            ELSE g1
                      f2 == IF ok2 /\ InScope(r.whois)
                            THEN Append(f1, [name |-> r.whois, rel |-> "whois_server"])
                            ELSE f1
                  IN  /\ vals' = g2
                      /\ Set(p, Signal([r EXCEPT
                              !.failed = (doURL /\ ~ok1) \/ (doWhois /\ ~ok2),
                              !.touched = doURL \/ doWhois,
                              !.assets = f2]))

\* the callback runs to its end and the goroutine is free again
ClosureRun(p) ==
    /\ inst[p].cl = "running"
    /\ CASE inst[p].kind = "store" -> StoreBody(p)
         [] inst[p].kind = "mark" -> MarkBody(p)
         [] inst[p].kind = "autlookup" -> AutnumLookupBody(p)
         [] inst[p].kind = "autstore" -> AutnumStoreBody(p)
    /\ worker' = IF worker = p THEN 0 ELSE worker
    /\ UNCHANGED <<now, sessDone, cfg, queue, fetched, rlimit, registered>>

\* ------------------------------------------------------------- environment
Tick ==
    /\ now < MaxTime
    /\ now' = now + 1
    /\ UNCHANGED <<sessDone, cfg, vals, mon, queue, worker, fetched, rlimit, registered, inst>>

Terminate ==
    /\ ~sessDone
    /\ sessDone' = TRUE
    /\ UNCHANGED <<now, cfg, vals, mon, queue, worker, fetched, rlimit, registered, inst>>

\* one invocation at a time, with the clock running
Next ==
    \/ \E p \in Inst : Invoke(p)
    \/ \E p \in Inst : Lookup(p)
    \/ \E p \in Inst : Take(p)
    \/ \E p \in Inst : Request(p)
    \/ \E p \in Inst : StoreSubmit(p)
    \/ \E p \in Inst : StoreWait(p)
    \/ \E p \in Inst : MarkSubmit(p)
    \/ \E p \in Inst : MarkWait(p)
    \/ QueueStart
    \/ \E p \in Inst : ClosureRun(p)
    \/ Tick

Spec == Init /\ [][Next]_vars

\* concurrent invocations within one tick of the clock
NextConc ==
    \/ \E p \in Inst : CheckStart(p)
    \/ \E p \in Inst : Lookup(p)
    \/ \E p \in Inst : Take(p)
    \/ \E p \in Inst : Request(p)
    \/ \E p \in Inst : StoreSubmit(p)
    \/ \E p \in Inst : StoreWait(p)
    \/ \E p \in Inst : MarkSubmit(p)
    \/ \E p \in Inst : MarkWait(p)
    \/ \E p \in Inst : AutnumCheck(p)
    \/ \E p \in Inst : AutnumLookupSubmit(p)
    \/ \E p \in Inst : AutnumLookupWait(p)
    \/ \E p \in Inst : AutnumStoreSubmit(p)
    \/ \E p \in Inst : AutnumStoreWait(p)
    \/ QueueStart
    \/ \E p \in Inst : ClosureRun(p)

SpecConc == InitConc /\ [][NextConc]_vars

\* concurrent invocations to their end: the limiter, the source and the queue
\* answer, and every invocation and the queue's goroutine keep being scheduled
NextLive ==
    \/ NextConc
    \/ \E p \in Inst : TakeRefused(p)

\* some enabled step is eventually taken
Fairness == WF_vars(NextLive)

SpecLive == InitConc /\ [][NextLive]_vars /\ Fairness

\* ---------------------------------------------------------- the rate limiter
\* ratelimit.New(2, ratelimit.WithoutSlack): permissions per time unit, and
\* the time unit in ticks
Rate == 2
Unit == Rate * PerRequest

\* variant: permissions not used while the limiter was idle stay available
TimeOfNextPermissionSlack(next, t) ==
    IF next = NoEdge THEN t ELSE next + PerRequest

\* the time of the permission a Take at time t is given: one interval after
\* the permission before it, or t when the limiter has been idle for longer
TimeOfNextPermission(next, t) ==
    IF next = NoEdge \/ t - next > PerRequest THEN t ELSE next + PerRequest

\* handlers of one source, each at the rlimit.Take() of its query
InitLimit ==
    /\ now = 0
    /\ sessDone = FALSE
    /\ cfg = InitCfg
    /\ vals = {}
    /\ mon = {}
    /\ queue = <<>>
    /\ worker = 0
    /\ fetched = 0
    /\ rlimit = InitLimiter
    /\ registered = "SecurityTrails"
    /\ inst = [p \in Inst |-> [InitInst EXCEPT !.pc = "take", !.plugin = registered,
                                                 !.branch = "query"]]

\* Take is called: the caller is given the time of its permission and sleeps
LimTake(p) ==
    /\ inst[p].pc = "take"
    /\ LET t == TimeOfNextPermission(rlimit.next, now)
       IN  /\ t <= LimHorizon
           /\ rlimit' = [rlimit EXCEPT !.next = t]
           /\ Set(p, [inst[p] EXCEPT !.pc = "sleep", !.slot = t])
    /\ UNCHANGED <<now, sessDone, cfg, vals, mon, queue, worker, fetched, registered>>

\* variant: of the callers that sleep, only the first may return
LimReturnInOrder(p) ==
    /\ inst[p].pc = "sleep"
    /\ inst[p].slot <= now
    /\ \A q \in Inst : q < p => inst[q].pc # "sleep"
    /\ rlimit' = [rlimit EXCEPT !.log = Append(@, now)]
    /\ Set(p, [inst[p] EXCEPT !.pc = "take", !.slot = NoEdge, !.acq = @ + 1])
    /\ UNCHANGED <<now, sessDone, cfg, vals, mon, queue, worker, fetched, registered>>

\* Take returns at the time of the permission; the caller makes its request
\* and comes back for the next one
LimReturn(p) ==
    /\ inst[p].pc = "sleep"
    /\ inst[p].slot <= now
    /\ rlimit' = [rlimit EXCEPT !.log = Append(@, now)]
    /\ Set(p, [inst[p] EXCEPT !.pc = "take", !.slot = NoEdge, !.acq = @ + 1])
    /\ UNCHANGED <<now, sessDone, cfg, vals, mon, queue, worker, fetched, registered>>

\* time passes, but not past the permission of a caller that sleeps
LimTick ==
    /\ now < LimHorizon
    /\ \A p \in Inst : inst[p].pc = "sleep" => now < inst[p].slot
    /\ now' = now + 1
    /\ UNCHANGED <<sessDone, cfg, vals, mon, queue, worker, fetched, rlimit, registered, inst>>

NextLimit ==
    \/ \E p \in Inst : LimTake(p)
    \/ \E p \in Inst : LimReturn(p)
    \/ LimTick

SpecLimit == InitLimit /\ [][NextLimit]_vars

\* callers and clock are scheduled fairly
FairLimit == WF_vars(NextLimit)
SpecLimitLive == InitLimit /\ [][NextLimit]_vars /\ FairLimit

\* concurrent invocations in a session that may be terminated at any moment
NextCancel ==
    \/ NextConc
    \/ Terminate

SpecCancel == InitConc /\ [][NextCancel]_vars

\* a SiteDossier session whose source answers every request of the page loop
InitPages ==
    /\ now = 0
    /\ sessDone = FALSE
    /\ cfg = InitCfg
    /\ vals = {}
    /\ mon = {}
    /\ queue = <<>>
    /\ worker = 0
    /\ fetched = MaxFetch - PageLimit
    /\ rlimit = InitLimiter
    /\ registered = "SiteDossier"
    /\ inst = [p \in Inst |-> InitInst]

\* one invocation of the handler
NextPages ==
    \/ Invoke(1)
    \/ \E p \in Inst : Take(p)
    \/ \E p \in Inst : Request(p)
    \/ \E p \in Inst : StoreSubmit(p)
    \/ \E p \in Inst : StoreWait(p)
    \/ \E p \in Inst : MarkSubmit(p)
    \/ \E p \in Inst : MarkWait(p)
    \/ QueueStart
    \/ \E p \in Inst : ClosureRun(p)

SpecPages == InitPages /\ [][NextPages]_vars

\* ------------------------------------------------------------- properties
Waits == {"storewait", "markwait", "autlookupwait", "autstorewait"}

\* C1: at most one submitted closure is between its start and its end, however
\* many invocations have called AppendToDBQueue
C1_MutualExclusion ==
    Cardinality({p \in Inst : inst[p].cl = "running"}) <= 1

\* one closure is running while the closure of another invocation is queued
C1_Witness ==
    \E p, q \in Inst : /\ p # q
                       /\ inst[p].cl = "running" /\ inst[p].kind = "autlookup"
                       /\ inst[q].cl = "queued"

\* C2: a submitted closure runs at most once and signals done at most once, and
\* only by having run; a caller that is past <-done (it has closed the channel)
\* has had exactly that closure run to completion with one signal, none of it
\* left in or sent on the closed channel; findings are read only after that
C2_Handshake ==
    \A p \in Inst :
        LET r == inst[p]
        IN  /\ r.runs <= 1
            /\ r.sends <= 1
            /\ r.sends = 1 => (r.runs = 1 /\ r.cl = "finished")
            /\ r.chan \in {0, 1}
            /\ r.pc \in Waits => ~r.closed
            /\ r.closed => (r.runs = 1 /\ r.sends = 1 /\ r.cl = "finished"
                            /\ r.chan = 0)
            /\ (r.pc = "done" /\ r.nsub > 0) => r.closed

\* autnum.store has returned findings its closure collected
C2_Witness ==
    \E p \in Inst : /\ inst[p].kind = "autstore"
                    /\ inst[p].pc = "done"
                    /\ inst[p].closed
                    /\ inst[p].findings # {}

\* C3: an FQDN handler whose subject the scope filter rejects (confidence 0,
\* no asset, or an asset whose name differs from the subject's ignoring case)
\* ends without error, without findings, without resolving the source, without
\* rate-limiter acquisition, retrieval, store, mark or any submission
C3_OutOfScope ==
    \A p \in Inst :
        LET r == inst[p]
        IN  (/\ r.ans.conf >= 0
             /\ \/ r.ans.conf = 0
                \/ r.ans.a = NoAsset
                \/ ToLower(r.subj) # ToLower(r.ans.a))
            => /\ r.pc = "done"
               /\ ~r.err
               /\ r.findings = {}
               /\ ~r.resolved
               /\ r.acq = 0 /\ r.retr = 0 /\ r.nsub = 0
               /\ ~r.handed /\ ~r.marked

\* the filter returned an asset with another name, with confidence
C3_Witness ==
    \E p \in Inst : /\ inst[p].pc = "done"
                    /\ inst[p].ans.conf > 0
                    /\ inst[p].ans.a = <<"x">>

\* C4: an invocation for which the gate answered "monitored within the TTL"
\* takes the lookup branch only: no acquisition, no retrieval, no store, no mark
C4_FreshLookupOnly ==
    \A p \in Inst :
        LET r == inst[p]
        IN  r.fresh => /\ r.branch = "lookup"
                       /\ r.acq = 0 /\ r.retr = 0 /\ r.nsub = 0
                       /\ ~r.handed /\ ~r.marked

\* a fresh invocation has finished with findings from lookup
C4_Witness ==
    \E p \in Inst : /\ inst[p].fresh
                    /\ inst[p].pc = "done"
                    /\ inst[p].findings # {}

Batch(r) == IF r.pc = "done" THEN r.findings ELSE Range(r.names)

\* C6: in no state is the monitored edge of an invocation written while a name
\* that invocation handed to store is missing from the graph
C6_MarkAfterStore ==
    \A p \in Inst :
        LET r == inst[p]
        IN  r.marked =>
               \A n \in Batch(r) :
                  \E v \in vals : /\ v.subj = r.subj
                                  /\ v.src = SourceName(r.plugin)
                                  /\ v.name = n

\* an invocation's edge is written, its batch is in the graph, and another
\* invocation is still before its own store
C6_Witness ==
    \E p, q \in Inst :
        /\ p # q
        /\ inst[p].marked /\ inst[p].pc = "markwait" /\ inst[p].names # <<>>
        /\ inst[q].pc \in {"take", "request", "store"}

\* C7: the gate answers "fresh" exactly when a subject -> source edge exists
\* whose time is at or after since
C7_GateIff ==
    \A p \in Inst :
        LET r == inst[p]
        IN  r.branch # "none" =>
               (r.fresh <=> (r.decEdge # NoEdge /\ r.decEdge >= r.since))

\* an edge stamped exactly at since counted as fresh
C7_Witness ==
    \E p \in Inst : /\ inst[p].fresh
                    /\ inst[p].decEdge = inst[p].since
                    /\ inst[p].since > 0 - TTL

\* C8: an FQDN handler that finds no TTL policy under its plugin name returns
\* an error, with no acquisition, retrieval, store, mark or finding, and the
\* pair is taken neither as fresh nor as stale
C8_MissingTTLFails ==
    \A p \in Inst :
        LET r == inst[p]
        IN  (r.resolved /\ cfg.ttl[r.plugin] = "none")
            => /\ r.pc = "done"
               /\ r.err
               /\ r.branch = "none" /\ ~r.fresh
               /\ r.acq = 0 /\ r.retr = 0 /\ r.nsub = 0
               /\ ~r.handed /\ ~r.marked
               /\ r.findings = {}

\* crt.sh found no policy under "crt.sh" and returned the error
C8_Witness ==
    \E p \in Inst : /\ inst[p].resolved
                    /\ inst[p].plugin = "crt.sh"
                    /\ cfg.ttl["crt.sh"] = "none"
                    /\ inst[p].err

\* C9: the list handed to store holds each normalized name at most once
C9_NoDuplicatesHanded ==
    \A p \in Inst :
        LET r == inst[p]
        IN  (r.handed /\ r.pc # "done")
            => \A i, j \in DOMAIN r.names : i # j => r.names[i] # r.names[j]

\* C10: every name a mutation has put in the graph passes the scope filter
C10_PersistedInScope ==
    \A v \in vals : v.rel \in {"discovered", "whois_server"} => InScope(v.name)

\* C20: an invocation never has more retrievals than acquisitions, a
\* retrieval is pending exactly when one acquisition is not yet used, and a
\* DuckDuckGo or crt.sh invocation that took the query branch ends with one
\* acquisition and one retrieval
C20_AcquireBeforeRetrieve ==
    \A p \in Inst :
        LET r == inst[p]
        IN  /\ r.retr <= r.acq
            /\ r.acq <= r.retr + 1
            /\ (r.pc = "request") <=> (r.acq = r.retr + 1)
            /\ (r.plugin \in {"DuckDuckGo", "crt.sh"} /\ r.branch = "query"
                    /\ r.pc \notin {"take", "request"})
                => (r.acq = 1 /\ r.retr = 1)
            /\ r.branch # "query" => (r.acq = 0 /\ r.retr = 0)

C20_Witness ==
    \E p \in Inst :
        /\ inst[p].plugin \in {"DuckDuckGo", "crt.sh"}
        /\ inst[p].branch = "query"
        /\ inst[p].pc = "done"
        /\ inst[p].acq = 1
        /\ inst[p].retr = 1

\* C15: the step in which a retrieval fails adds no candidate, leaves the
\* other invocations, the queue and the graph as they are, and the invocation
\* goes on without an error; when every retrieval of an invocation has failed
\* there is nothing to hand to store and no finding
C15_FailureAbsorbed ==
    [][\A p \in Inst :
          LET r == inst[p]
              r2 == inst'[p]
          IN  /\ r2.nfail > r.nfail =>
                   /\ r2.subs = r.subs
                   /\ Range(r2.names) \subseteq Range(r.names) \cup r.subs
                   /\ r2.findings = {}
                   /\ \A q \in Inst \ {p} : inst'[q] = inst[q]
                   /\ <<queue, worker, vals, mon>>' = <<queue, worker, vals, mon>>
              /\ r2.nfail > 0 => ~r2.err
              /\ (r2.nfail > 0 /\ r2.nfail = r2.retr) =>
                   (r2.names = <<>> /\ r2.assets = <<>> /\ r2.findings = {})]_vars

C15_Witness ==
    \E p \in Inst :
        /\ inst[p].pc = "done"
        /\ inst[p].plugin \in {"DuckDuckGo", "crt.sh", "SecurityTrails"}
        /\ inst[p].nfail > 0
        /\ inst[p].marked
        /\ ~inst[p].err

\* C17: a Chaos or SecurityTrails invocation that has had a successful
\* retrieval has used no credential after it: the successful retrieval is its
\* last one, and its number of retrievals is the index of that credential
C17_StopAtFirstSuccess ==
    \A p \in Inst :
        (Keyed(inst[p].plugin) /\ inst[p].retr > inst[p].nfail)
            => inst[p].retr = inst[p].nfail + 1

\* C18: every string the scope filter has been asked about for a candidate
\* is already lowercased and trimmed
C18_NormalizedBeforeScope ==
    \A p \in Inst : \A n \in inst[p].asked : n = Normalize(n)

\* C13: the step in which a closure meets a failing graph call still ends the
\* closure with its one signal, frees the queue, and changes no other
\* invocation nor the rest of the queue; the submitter can go on and ends
\* without an error; and next to a failed closure every closure still runs
\* once and signals once
C13_FailureIsolated ==
    [][\A p \in Inst :
          LET r == inst[p]
              r2 == inst'[p]
          IN  /\ (r2.failed /\ ~r.failed) =>
                   /\ r2.cl = "finished" /\ r2.runs = 1
                   /\ r2.sends = 1 /\ r2.chan = 1
                   /\ r2.pc \in Waits
                   /\ worker' = 0 /\ queue' = queue
                   /\ \A q \in Inst \ {p} : inst'[q] = inst[q]
              /\ r2.failed => ~r2.err /\ (r2.pc \in Waits => r2.chan = 1)
              /\ (\E q \in Inst : inst'[q].failed) =>
                   /\ r2.runs <= 1 /\ r2.sends <= 1
                   /\ r2.cl = "finished" => (r2.runs = 1 /\ r2.sends = 1)
                   /\ r2.pc = "done" /\ r2.nsub > 0 => r2.cl = "finished"]_vars

C13_Witness ==
    \E p, q \in Inst :
        /\ p # q
        /\ inst[p].failed /\ inst[p].pc = "done" /\ inst[p].closed
        /\ ~inst[q].failed /\ inst[q].pc = "done" /\ inst[q].runs = 1
        /\ inst[q].findings # {}

\* C19: the pages a SiteDossier invocation has requested are 1, 2, ..., k
\* with k at most 19; after a page that failed or was empty nothing more is
\* requested; and the names handed to store, and stored, are all the names
\* collected from the pages before
C19_Pagination ==
    \A p \in Inst :
        LET r == inst[p]
        IN  r.plugin = "SiteDossier" =>
              /\ r.pages = [k \in 1..r.retr |-> k]
              /\ r.retr <= PageLimit - 1
              /\ r.pc = "request" => r.i = r.retr + 1
              /\ r.nfail <= 1
              /\ r.nfail = 1 => r.pc \notin {"take", "request"}
              /\ (r.branch = "query" /\ r.pc \notin {"take", "request"}) =>
                    (r.nfail = 1 \/ r.retr = PageLimit - 1)
              /\ r.pc \in {"store", "storewait", "mark", "markwait"} =>
                    Range(r.names) = r.subs
              /\ (r.pc \in {"mark", "markwait"} /\ ~sessDone) =>
                    \A n \in r.subs :
                        \E v \in vals : v.subj = r.subj /\ v.name = n
              /\ (r.pc = "done" /\ r.branch = "query" /\ ~sessDone) =>
                    r.findings = {v.name : v \in {w \in vals : w.subj = r.subj}}

\* a page fails after two pages that gave names, and the names are stored
C19_Witness ==
    \E p \in Inst :
        /\ inst[p].plugin = "SiteDossier"
        /\ inst[p].pc = "done"
        /\ inst[p].pages = <<1, 2, 3>>
        /\ inst[p].nfail = 1
        /\ Cardinality(inst[p].findings) = 2

\* C14: once the session is done, no invocation submits a mutation and the
\* graph is not written
C14_NoSubmitAfterDone ==
    [][sessDone =>
          /\ \A p \in Inst : inst'[p].nsub = inst[p].nsub
          /\ vals' = vals
          /\ mon' = mon]_vars

\* C11: no window of one time unit holds more than Rate returns of Take, and
\* two returns are never closer than one interval, whatever the time the
\* limiter was idle before
C11_RateBound ==
    /\ \A t \in 0..LimHorizon :
          Cardinality({k \in DOMAIN rlimit.log :
                          t <= rlimit.log[k] /\ rlimit.log[k] < t + Unit}) <= Rate
    /\ \A k \in 1..(Len(rlimit.log) - 1) :
          rlimit.log[k + 1] - rlimit.log[k] >= PerRequest

\* the limiter is idle for a whole time unit, then all callers ask at once
\* and keep asking
C11_Witness ==
    /\ Len(rlimit.log) >= Rate + 1
    /\ rlimit.log[1] >= Unit
    /\ rlimit.log[Rate + 1] - rlimit.log[1] = Unit
    /\ \A p \in Inst : inst[p].acq >= 1

\* C12: every caller of Take that sleeps returns
C12_TakeReturns ==
    \A p \in Inst : (inst[p].pc = "sleep") ~> (inst[p].pc = "take")

\* all callers sleep at once, and each has returned before
C12_Witness ==
    /\ \A p \in Inst : inst[p].pc = "sleep" /\ inst[p].acq >= 1
    /\ \E p \in Inst : inst[p].slot > now + PerRequest

\* C16: every invocation that has started reaches its end, whichever path it
\* takes
C16_Termination ==
    \A p \in Inst : (inst[p].pc # "idle") ~> (inst[p].pc = "done")

\* an invocation has gone round the retrieval loop, has been blocked on two
\* submitted mutations and has ended, next to one that ended in check
C16_Witness ==
    \E p, q \in Inst :
        /\ inst[p].pc = "done" /\ inst[p].branch = "query"
        /\ inst[p].retr >= 2 /\ inst[p].nsub = 2 /\ inst[p].closed
        /\ inst[q].pc = "done" /\ inst[q].branch = "none"

\* C21: an autnum invocation for which a matched transformation has no TTL
\* policy does not go on into lookup: it submits no closure, and no
\* invocation that has been through the closure of lookup belongs to a
\* session with such a gap
C21_AutnumMissingTTLFails ==
    \A p \in Inst :
        LET r == inst[p]
        IN  r.plugin = RDAP =>
              /\ r.pc \in {"autlookup", "autlookupwait"} => r.m \subseteq r.sinces
              /\ (r.pc = "done" /\ r.kind = "autlookup") =>
                    (r.err \/ \A k \in cfg.matches.m : cfg.ttl[k] # "none")

\* C22: a closure of autnum.lookup or autnum.store that runs when the session
\* is done calls nothing on the graph, leaves the graph as it is, collects no
\* finding, and sends its one signal, so that its submitter can go on; the
\* submitter of such a closure ends without findings
C22_DoneClosureNoOp ==
    [][\A p \in Inst :
          LET r == inst[p]
              r2 == inst'[p]
          IN  /\ (sessDone /\ r.kind \in {"autlookup", "autstore"}
                     /\ r.cl = "running" /\ r2.cl = "finished") =>
                   /\ vals' = vals /\ mon' = mon
                   /\ ~r2.touched
                   /\ r2.assets = <<>>
                   /\ r2.sends = 1 /\ r2.chan = 1
                   /\ r2.pc \in Waits
              /\ (r2.kind \in {"autlookup", "autstore"} /\ r2.pc = "done"
                     /\ ~r2.touched) =>
                   (r2.findings = {} /\ r2.closed /\ ~r2.err)]_vars

\* the session ended while a whois server was waiting to be stored; the
\* closure has run and the submitter has returned with nothing
C22_Witness ==
    \E p \in Inst :
        /\ sessDone
        /\ inst[p].kind = "autstore"
        /\ inst[p].pc = "done"
        /\ inst[p].runs = 1 /\ inst[p].closed
        /\ ~inst[p].touched
        /\ vals = {}
        /\ cfg.matches.m = {"URL", "FQDN", "ContactRecord"}

\* C23: an invocation that took the query branch ends with the pair marked,
\* by one MarkAssetMonitored after at most one store, whatever its retrievals
\* gave; an invocation that decides after it and within the TTL of the edge
\* takes the reuse branch, retrieves nothing and returns only stored names
C23_MarkedWhateverTheOutcome ==
    \A p \in Inst :
        LET r == inst[p]
            src == SourceName(r.plugin)
        IN  (r.plugin \in FQDNPlugins /\ r.branch = "query" /\ r.pc = "done") =>
              /\ r.marked
              /\ r.nsub = IF r.handed THEN 2 ELSE 1
              /\ EdgeTime(mon, r.subj, src) # NoEdge
              /\ \A q \in Inst :
                    LET r2 == inst[q]
                    IN  (q > p /\ r2.branch # "none") =>
                          /\ r2.decEdge # NoEdge
                          /\ r2.since <= r2.decEdge =>
                                /\ r2.branch = "lookup"
                                /\ r2.acq = 0 /\ r2.retr = 0
                                /\ r2.pc = "done" =>
                                      r2.findings \subseteq
                                        {v.name : v \in {w \in vals :
                                            w.subj = r2.subj /\ w.src = src}}
                                /\ (p = 1 /\ q = 2 /\ r.retr = r.nfail) =>
                                      r2.findings = {}

\* the first invocation retrieved nothing usable and marked the pair; the
\* second, inside the TTL, has gone through the reuse branch
C23_Witness ==
    /\ inst[1].branch = "query" /\ inst[1].pc = "done"
    /\ inst[1].retr = inst[1].nfail
    /\ inst[1].marked
    /\ inst[2].branch = "lookup" /\ inst[2].pc = "done"
    /\ inst[2].findings = {}

\* C24: of the concurrent invocations of one handler on one subject whose TTL
\* windows overlap, at most one takes the query branch and goes to the
\* limiter and the remote source
C24_OneFetchPerWindow ==
    \A p, q \in Inst :
        LET r == inst[p]
            r2 == inst[q]
        IN  (/\ p < q
             /\ r.plugin \in FQDNPlugins /\ r2.plugin = r.plugin
             /\ r2.subj = r.subj
             /\ r2.since <= r.since + TTL
             /\ r.branch = "query" /\ r.acq >= 1 /\ r.retr >= 1)
            => ~(r2.branch = "query" /\ r2.acq >= 1 /\ r2.retr >= 1)

\* C25: the name a handler passes to TTLStartTime is the name of the Source
\* under which it marks the subject and stores the names it found, and the
\* Source names of the plugins are pairwise distinct
C25_SourceIdentity ==
    /\ \A p \in Inst :
          LET r == inst[p]
          IN  (r.plugin \in FQDNPlugins /\ r.branch = "query" /\ r.pc = "done") =>
                /\ cfg.ttl[r.plugin] = "set"
                /\ \E e \in mon : e.subj = r.subj /\ e.src = r.plugin
                /\ \A n \in r.findings :
                      \E v \in vals : v.subj = r.subj /\ v.name = n /\ v.src = r.plugin
    /\ \A pl \in FQDNPlugins \ {registered} :
          SourceName(pl) # SourceName(registered)
====
